---- MODULE Spec2Model ----
(***************************************************************************)
(* PMS scheduling engine of danyol08/PMS-Monitoring: the contract store,   *)
(* the completion reconciler (complete_hardware_pms / complete_label_pms), *)
(* the contract CRUD handlers that write the same rows, and the lifecycle  *)
(* monitor (check_upcoming_maintenance, check_expired_contracts).          *)
(*                                                                         *)
(* Datetimes are integers counted in ticks, TicksPerDay ticks to a day, so *)
(* that a date and a time of day are both visible.  A stored date field is *)
(* NONE when it is null and BAD when it holds text that                    *)
(* datetime.fromisoformat rejects.                                         *)
(***************************************************************************)
EXTENDS Integers, Sequences, FiniteSets, TLC

VARIABLES
    contracts,        \* table name -> (row id -> row): hardware_contracts, label_contracts
    service_history,  \* the service_history table, in insertion order
    notifications,    \* the notifications table, in insertion order
    now,              \* datetime.utcnow()
    last,             \* the locals and the response of the handler or job that ran last
    swept,            \* ids whose status the expiry sweep has set to expired
    calls             \* name -> locals of the handler or job that is between two store calls

vars == <<contracts, service_history, notifications, now, last, swept, calls>>

-----------------------------------------------------------------------------
(* Bounds of the model *)

MaxClock == 1
MaxEvents == 1
MaxNotifications == 4
MaxCompletions == 2

(* Time *)

TicksPerDay == 2

Days(n) == n * TicksPerDay

DateOf(t) == t \div TicksPerDay

NONE == -1

BAD == -2

NowStart == Days(1000) + 1

HardwareCadenceDays == 90

LabelCadenceDays == 30

UpcomingWindowDays == 7

(* Tables, ids, users *)

Tables == {"hardware_contracts", "label_contracts"}

TableIds == [hardware_contracts |-> {"h1"}, label_contracts |-> {"l1"}]

RequestIds == {"h1", "l1"}

ContractType(t) == IF t = "hardware_contracts" THEN "hardware" ELSE "label"

ContractStatus == {"active", "inactive", "expired", "pending"}

users == [u1 |-> "admin", u2 |-> "technician", u3 |-> "viewer"]

UserOrder == <<"u1", "u2", "u3">>

-----------------------------------------------------------------------------
(* Pure helpers *)

\* variant: an unknown contract type is quarterly
CadenceDaysQuarterlyDefault(contract_type) ==
    IF contract_type = "label" THEN LabelCadenceDays ELSE HardwareCadenceDays

CadenceDays(contract_type) ==
    IF contract_type = "hardware" THEN HardwareCadenceDays
    ELSE IF contract_type = "label" THEN LabelCadenceDays
    ELSE LabelCadenceDays

\* the operation raised (TypeError of None + timedelta, str + timedelta)
RAISED == -3

Parses(s) == s >= 0

\* contract_date is a datetime, or NONE / BAD for None / a string
calculate_next_pms_from_contract_date(contract_date, contract_type) ==
    IF Parses(contract_date) THEN contract_date + Days(CadenceDays(contract_type)) ELSE RAISED

\* variant: an absent or unparseable contract date is replaced by utcnow()
calculate_next_pms_schedule_from_now(contract_date, contract_type, current_schedule) ==
    IF Parses(current_schedule) THEN current_schedule + Days(CadenceDays(contract_type))
    ELSE calculate_next_pms_from_contract_date(
            IF Parses(contract_date) THEN contract_date ELSE now, contract_type)

\* contract_date, current_schedule: a datetime or a string that parses, or
\* NONE (None, "") or BAD (a string fromisoformat rejects); NONE is returned for None
calculate_next_pms_schedule(contract_date, contract_type, current_schedule) ==
    IF contract_date = NONE THEN NONE
    ELSE IF ~Parses(contract_date) THEN NONE
    ELSE IF current_schedule = NONE
         THEN calculate_next_pms_from_contract_date(contract_date, contract_type)
    ELSE IF ~Parses(current_schedule)
         THEN calculate_next_pms_from_contract_date(contract_date, contract_type)
    ELSE IF contract_type = "hardware" THEN current_schedule + Days(90)
    ELSE IF contract_type = "label" THEN current_schedule + Days(30)
    ELSE current_schedule + Days(30)

\* variant: the loop emits the contract date first
RECURSIVE PmsLoopFromAnchor(_, _, _)
PmsLoopFromAnchor(current_date, end_date, interval_days) ==
    IF current_date <= end_date
    THEN <<current_date>> \o PmsLoopFromAnchor(current_date + Days(interval_days), end_date, interval_days)
    ELSE <<>>

\* variant: the loop drops a date equal to the end date
RECURSIVE PmsLoopBeforeEnd(_, _, _)
PmsLoopBeforeEnd(current_date, end_date, interval_days) ==
    IF current_date + Days(interval_days) < end_date
    THEN <<current_date + Days(interval_days)>>
           \o PmsLoopBeforeEnd(current_date + Days(interval_days), end_date, interval_days)
    ELSE <<>>

\* while current_date <= end_date: the next_pms values appended
RECURSIVE PmsLoop(_, _, _)
PmsLoop(current_date, end_date, interval_days) ==
    IF current_date <= end_date
    THEN LET next_pms == current_date + Days(interval_days)
         IN (IF next_pms <= end_date THEN <<next_pms>> ELSE <<>>)
              \o PmsLoop(next_pms, end_date, interval_days)
    ELSE <<>>

\* variant: a missing or unparseable end date is read as one year after the contract date
generate_full_pms_schedule_open_end(contract_date, end_date, contract_type) ==
    IF ~Parses(contract_date) THEN <<>>
    ELSE PmsLoop(contract_date, IF Parses(end_date) THEN end_date ELSE contract_date + Days(365),
                 IF contract_type = "hardware" THEN 90 ELSE 30)

\* the datetimes whose isoformat() the function returns
generate_full_pms_schedule(contract_date, end_date, contract_type) ==
    IF contract_date = NONE \/ end_date = NONE THEN <<>>
    ELSE IF ~Parses(contract_date) THEN <<>>
    ELSE IF ~Parses(end_date) THEN <<>>
    ELSE PmsLoop(contract_date, end_date,
                 IF contract_type = "hardware" THEN 90
                 ELSE IF contract_type = "label" THEN 30 ELSE 30)

RowsOf(t) == contracts[t]

Exists(t, id) == id \in DOMAIN contracts[t]

Idle == [op |-> "idle"]

IdOrder == <<"h1", "l1">>

SeqOfSet(S) == SelectSeq(IdOrder, LAMBDA i : i \in S)

\* the locals of an invocation `name` that has made some of its store calls
Enter(name, locals) ==
    [n \in DOMAIN calls \cup {name} |-> IF n = name THEN locals ELSE calls[n]]

Leave(name) == [n \in DOMAIN calls \ {name} |-> calls[n]]

SetRow(t, id, row) == [contracts EXCEPT ![t] = [i \in DOMAIN @ |-> IF i = id THEN row ELSE @[i]]]

-----------------------------------------------------------------------------
(* ISO dates: an ISO string is <<year, month, day, tick of the day>>; a datetime
   is the proleptic Gregorian ordinal of its date times TicksPerDay plus the
   tick of the day, as datetime.fromisoformat / isoformat / timedelta compute *)

IsLeap(year) == year % 4 = 0 /\ (year % 100 # 0 \/ year % 400 = 0)

DaysInMonth(year, month) ==
    IF month = 2 THEN (IF IsLeap(year) THEN 29 ELSE 28)
    ELSE IF month \in {4, 6, 9, 11} THEN 30 ELSE 31

RECURSIVE DaysBeforeMonth(_, _)
DaysBeforeMonth(year, month) ==
    IF month = 1 THEN 0 ELSE DaysBeforeMonth(year, month - 1) + DaysInMonth(year, month - 1)

DaysBeforeYear(year) ==
    LET y == year - 1 IN y * 365 + (y \div 4) - (y \div 100) + (y \div 400)

\* BAD for a string that names no date
fromisoformat(iso) ==
    IF /\ iso[1] >= 1 /\ iso[2] \in 1..12 /\ iso[3] \in 1..DaysInMonth(iso[1], iso[2])
       /\ iso[4] \in 0..(TicksPerDay - 1)
    THEN Days(DaysBeforeYear(iso[1]) + DaysBeforeMonth(iso[1], iso[2]) + iso[3]) + iso[4]
    ELSE BAD

YearOfOrdinal(ordinal) ==
    LET n0 == ordinal - 1
        n400 == n0 \div 146097
        r400 == n0 % 146097
        n100 == r400 \div 36524
        r100 == r400 % 36524
        n4 == r100 \div 1461
        r4 == r100 % 1461
        n1 == r4 \div 365
        year == n400 * 400 + 1 + n100 * 100 + n4 * 4 + n1
    IN IF n1 = 4 \/ n100 = 4 THEN year - 1 ELSE year

isoformat(datetime) ==
    LET ordinal == datetime \div TicksPerDay
        year == YearOfOrdinal(ordinal)
        n == ordinal - DaysBeforeYear(year)
        month == CHOOSE m \in 1..12 :
                    DaysBeforeMonth(year, m) < n /\ n <= DaysBeforeMonth(year, m) + DaysInMonth(year, m)
    IN <<year, month, n - DaysBeforeMonth(year, month), datetime % TicksPerDay>>

\* pms_schedules.append(next_pms.isoformat())
IsoSchedule(pms_schedules) == [k \in 1..Len(pms_schedules) |-> isoformat(pms_schedules[k])]

-----------------------------------------------------------------------------
(* Completion reconciler: POST /{hardware,label}/{contract_id}/complete-pms *)

CompletionFaults ==
    {"none", "select_error", "table_missing", "insert_error", "insert_no_data",
     "update_error", "crash_before_update"}

CompletionDatetime(completion_date) ==
    IF completion_date # NONE /\ Parses(completion_date) THEN completion_date ELSE now

\* variant: advances from the old due date instead of the completion date
NextPmsFromOldDue(t, contract, completion_datetime) ==
    contract.next_pms_schedule + Days(IF t = "hardware_contracts" THEN 90 ELSE 30)

\* variant: stores the completion date itself
NextPmsNoCadence(t, contract, completion_datetime) == completion_datetime

\* datetime.max.toordinal(): completion_datetime + timedelta(...) raises OverflowError beyond it
MaxOrdinal == 3652059

DatetimeMax == Days(MaxOrdinal) + TicksPerDay - 1

NextPmsAfterCompletion(t, contract, completion_datetime) ==
    LET next_pms == completion_datetime + Days(IF t = "hardware_contracts" THEN 90 ELSE 30)
    IN IF next_pms > DatetimeMax THEN RAISED ELSE next_pms

ServiceHistoryData(t, contract_id, completion_datetime) ==
    [contract_id |-> contract_id, contract_type |-> ContractType(t),
     service_date |-> completion_datetime, service_type |-> "PMS", status |-> "completed"]

\* variant: a completion re-activates the contract
CompletedRowReactivated(contract, next_pms) ==
    [contract EXCEPT !.next_pms_schedule = next_pms, !.status = "active"]

\* variant: an expired contract is left alone
CompletedRowUnlessExpired(contract, next_pms) ==
    IF contract.status = "expired" THEN contract
    ELSE [contract EXCEPT !.next_pms_schedule = next_pms]

\* .update({"next_pms_schedule": ..., "updated_at": ...})
CompletedRow(contract, next_pms) == [contract EXCEPT !.next_pms_schedule = next_pms]

HistoryInserted(fault) == fault \in {"none", "update_error", "crash_before_update"}

\* variant: no 404 check
ReachedWithoutCheck(found, fault) == fault # "select_error"

\* the handler gets past its 404 check
Reached(found, fault) == found /\ fault # "select_error"

CompletionCode(found, fault) ==
    IF fault = "select_error" THEN 500
    ELSE IF ~found THEN 404
    ELSE IF fault = "crash_before_update" THEN 0
    ELSE IF fault = "none" THEN 200 ELSE 500

\* the detail of the HTTPException the handler raises
CompletionDetail(found, fault, overflow) ==
    IF fault = "select_error" THEN "Error completing PMS"
    ELSE IF ~found THEN "contract not found"
    ELSE IF fault = "table_missing" THEN "Failed to create or access service_history table"
    ELSE IF fault \in {"insert_error", "insert_no_data"} THEN "Database error"
    ELSE IF fault = "crash_before_update" THEN ""
    ELSE IF overflow \/ fault = "update_error" THEN "Error completing PMS"
    ELSE ""

\* variant: the contract is updated before the service_history insert
UpdatedBeforeInsert(reached, fault) ==
    reached /\ fault \notin {"table_missing", "update_error", "crash_before_update"}

\* the update of next_pms_schedule is reached and succeeds
Updated(reached, fault) == reached /\ fault = "none"

complete_pms(t, contract_id, completion_date, fault) ==
    LET found == Exists(t, contract_id)
        reached == Reached(found, fault)
        completion_datetime == CompletionDatetime(completion_date)
        inserted == reached /\ HistoryInserted(fault)
        next_pms == NextPmsAfterCompletion(t, contracts[t][contract_id], completion_datetime)
        overflow == inserted /\ fault # "crash_before_update" /\ next_pms = RAISED
        code == IF overflow THEN 500 ELSE CompletionCode(found, fault)
    IN /\ Len(service_history) < MaxEvents
       /\ service_history' =
            IF inserted
            THEN Append(service_history, ServiceHistoryData(t, contract_id, completion_datetime))
            ELSE service_history
       /\ contracts' =
            IF Updated(reached, fault) /\ ~overflow
            THEN SetRow(t, contract_id, CompletedRow(contracts[t][contract_id], next_pms))
            ELSE contracts
       /\ last' = [op |-> "complete_pms", table |-> t, contract_id |-> contract_id,
                   code |-> code, detail |-> CompletionDetail(found, fault, overflow),
                   service_history_id |-> IF code = 200 THEN Len(service_history) + 1 ELSE 0,
                   next_pms_schedule |-> IF code = 200 THEN next_pms ELSE NONE]
       /\ UNCHANGED <<notifications, now, swept, calls>>

complete_hardware_pms(contract_id, completion_date, fault) ==
    complete_pms("hardware_contracts", contract_id, completion_date, fault)

complete_label_pms(contract_id, completion_date, fault) ==
    complete_pms("label_contracts", contract_id, completion_date, fault)

\* complete-pms store call by store call: the select, the 404 check and the
\* parse of completion_date
complete_select(name, t, contract_id, completion_date) ==
    LET found == Exists(t, contract_id)
    IN /\ name \notin DOMAIN calls
       /\ IF found
          THEN /\ calls' = Enter(name, [pc |-> "insert", table |-> t, contract_id |-> contract_id,
                                        contract |-> contracts[t][contract_id],
                                        completion_datetime |-> CompletionDatetime(completion_date),
                                        service_history_id |-> 0])
               /\ UNCHANGED last
          ELSE /\ last' = [op |-> "complete_pms", table |-> t, contract_id |-> contract_id,
                           code |-> 404, detail |-> CompletionDetail(found, "none", FALSE),
                           service_history_id |-> 0, next_pms_schedule |-> NONE]
               /\ UNCHANGED calls
       /\ UNCHANGED <<contracts, service_history, notifications, now, swept>>

\* the service_history insert
complete_insert(name) ==
    /\ name \in DOMAIN calls
    /\ calls[name].pc = "insert"
    /\ Len(service_history) < MaxCompletions
    /\ service_history' =
            Append(service_history,
                   ServiceHistoryData(calls[name].table, calls[name].contract_id,
                                      calls[name].completion_datetime))
    /\ calls' = Enter(name, [calls[name] EXCEPT !.pc = "update",
                                                !.service_history_id = Len(service_history) + 1])
    /\ UNCHANGED <<contracts, notifications, now, last, swept>>

\* next_pms, the update of next_pms_schedule and the response
complete_update(name) ==
    LET c == calls[name]
        t == c.table
        stored == Exists(t, c.contract_id)
        next_pms == NextPmsAfterCompletion(t, c.contract, c.completion_datetime)
        overflow == next_pms = RAISED
    IN /\ name \in DOMAIN calls
       /\ c.pc = "update"
       /\ contracts' =
            IF stored /\ ~overflow
            THEN SetRow(t, c.contract_id, CompletedRow(contracts[t][c.contract_id], next_pms))
            ELSE contracts
       /\ last' = [op |-> "complete_pms", table |-> t, contract_id |-> c.contract_id,
                   code |-> IF overflow THEN 500 ELSE 200,
                   detail |-> CompletionDetail(TRUE, "none", overflow),
                   service_history_id |-> IF overflow THEN 0 ELSE c.service_history_id,
                   next_pms_schedule |-> IF overflow THEN NONE ELSE next_pms]
       /\ calls' = Leave(name)
       /\ UNCHANGED <<service_history, notifications, now, swept>>

-----------------------------------------------------------------------------
(* Contract CRUD that writes the rows the scheduling engine reads *)

Unset == "unset"

ApplyUpdate(row, upd) ==
    [row EXCEPT
       !.status = IF upd.status # Unset THEN upd.status ELSE @,
       !.next_pms_schedule = IF upd.next_pms_schedule # NONE THEN upd.next_pms_schedule ELSE @,
       !.end_of_contract = IF upd.end_of_contract # NONE THEN upd.end_of_contract ELSE @]

update_contract(t, contract_id, contract_update, fault) ==
    LET found == Exists(t, contract_id)
        code == IF fault = "select_error" THEN 500
                ELSE IF ~found THEN 404
                ELSE IF fault = "update_error" THEN 500 ELSE 200
    IN /\ contracts' =
            IF code = 200
            THEN SetRow(t, contract_id, ApplyUpdate(contracts[t][contract_id], contract_update))
            ELSE contracts
       /\ last' = [op |-> "update_contract", code |-> code]
       /\ UNCHANGED <<service_history, notifications, now, swept, calls>>

update_hardware_contract(contract_id, contract_update, fault) ==
    update_contract("hardware_contracts", contract_id, contract_update, fault)

update_label_contract(contract_id, contract_update, fault) ==
    update_contract("label_contracts", contract_id, contract_update, fault)

delete_contract(t, contract_id) ==
    LET found == Exists(t, contract_id)
    IN /\ contracts' =
            IF found
            THEN [contracts EXCEPT ![t] = [i \in DOMAIN @ \ {contract_id} |-> @[i]]]
            ELSE contracts
       /\ last' = [op |-> "delete_contract", code |-> IF found THEN 200 ELSE 404]
       /\ swept' = IF found THEN swept \ {contract_id} ELSE swept
       /\ UNCHANGED <<service_history, notifications, now, calls>>

delete_hardware_contract(contract_id) == delete_contract("hardware_contracts", contract_id)

delete_label_contract(contract_id) == delete_contract("label_contracts", contract_id)

\* variant: descending created_at order
RECURSIVE OrderByCreatedAtDesc(_, _)
OrderByCreatedAtDesc(t, ids) ==
    IF ids = {} THEN <<>>
    ELSE LET first == CHOOSE i \in ids :
                        \A j \in ids : contracts[t][i].created_at >= contracts[t][j].created_at
         IN <<first>> \o OrderByCreatedAtDesc(t, ids \ {first})

\* the rows of a table in ascending created_at order
RECURSIVE OrderByCreatedAt(_, _)
OrderByCreatedAt(t, ids) ==
    IF ids = {} THEN <<>>
    ELSE LET first == CHOOSE i \in ids :
                        \A j \in ids : contracts[t][i].created_at <= contracts[t][j].created_at
         IN <<first>> \o OrderByCreatedAt(t, ids \ {first})

\* the first `done` updates of the loop reach the store, the next one raises
resequence_sq(t, done) ==
    LET rows == OrderByCreatedAt(t, DOMAIN contracts[t])
        n == IF done < Len(rows) THEN done ELSE Len(rows)
        idx(i) == CHOOSE k \in 1..Len(rows) : rows[k] = i
    IN /\ contracts' = [contracts EXCEPT ![t] =
                          [i \in DOMAIN @ |-> IF idx(i) <= n THEN [@[i] EXCEPT !.sq = idx(i)]
                                              ELSE @[i]]]
       /\ last' = [op |-> "resequence_sq", code |-> IF n = Len(rows) THEN 200 ELSE 500,
                   updated |-> IF n = Len(rows) THEN n ELSE 0]
       /\ UNCHANGED <<service_history, notifications, now, swept, calls>>

resequence_hardware_sq(done) == resequence_sq("hardware_contracts", done)

resequence_label_sq(done) == resequence_sq("label_contracts", done)

\* s.isdigit()
IsDigit(sq) == sq >= 0

\* next_available(start): the least n >= start not in `used`
NextAvailable(start, used) ==
    CHOOSE n \in start..(start + Cardinality(used)) :
        n \notin used /\ \A m \in start..(n - 1) : m \in used

\* the updates of the second loop, in order: <<id, n>> for each row whose sq is not a number
RECURSIVE BackfillUpdates(_, _, _, _)
BackfillUpdates(t, rows, used, next_n) ==
    IF rows = <<>> THEN <<>>
    ELSE IF IsDigit(contracts[t][Head(rows)].sq)
         THEN BackfillUpdates(t, Tail(rows), used, next_n)
         ELSE LET n == NextAvailable(next_n, used)
              IN <<(<<Head(rows), n>>)>> \o BackfillUpdates(t, Tail(rows), used \cup {n}, n + 1)

\* the first `done` updates of the loop reach the store, the next one raises
_backfill_sq_for_table(t, done) ==
    LET rows == OrderByCreatedAt(t, DOMAIN contracts[t])
        used == {contracts[t][i].sq : i \in {j \in DOMAIN contracts[t] : IsDigit(contracts[t][j].sq)}}
        updates == BackfillUpdates(t, rows, used, 1)
        n == IF done < Len(updates) THEN done ELSE Len(updates)
        written == {updates[k] : k \in 1..n}
    IN /\ contracts' = [contracts EXCEPT ![t] =
                          [i \in DOMAIN @ |->
                              IF \E u \in written : u[1] = i
                              THEN [@[i] EXCEPT !.sq = (CHOOSE u \in written : u[1] = i)[2]]
                              ELSE @[i]]]
       /\ last' = [op |-> "backfill_sq", code |-> IF n = Len(updates) THEN 200 ELSE 500,
                   updated |-> IF n = Len(updates) THEN n ELSE 0]
       /\ UNCHANGED <<service_history, notifications, now, swept, calls>>

backfill_hardware_sq(done) == _backfill_sq_for_table("hardware_contracts", done)

backfill_label_sq(done) == _backfill_sq_for_table("label_contracts", done)

-----------------------------------------------------------------------------
(* Contract creation: POST /hardware, POST /label *)

\* the most recently created row: .order("created_at", desc=True).limit(1)
LatestCreated(t) ==
    CHOOSE i \in DOMAIN contracts[t] :
        \A j \in DOMAIN contracts[t] : contracts[t][i].created_at >= contracts[t][j].created_at

\* "1" when the select raises, the table is empty or the latest sq is not a number
_get_next_sq(t, select_error) ==
    IF select_error \/ DOMAIN contracts[t] = {} THEN 1
    ELSE LET raw == contracts[t][LatestCreated(t)].sq
         IN IF raw >= 0 THEN raw + 1 ELSE 1

\* an id the store has never issued: no table, event, notification or sweep knows it
FreshId(id) ==
    /\ \A t \in Tables : id \notin DOMAIN contracts[t]
    /\ id \notin swept
    /\ \A k \in 1..Len(service_history) : service_history[k].contract_id # id
    /\ \A k \in 1..Len(notifications) : notifications[k].contract_id # id

CreateFaults == {"none", "sq_select_error", "insert_error", "insert_no_data"}

\* date_of_contract and end_of_contract are required datetimes of the request
\* model: a request without them is rejected with 422 before the handler runs
CreateCode(contract, fault) ==
    IF ~Parses(contract.date_of_contract) \/ ~Parses(contract.end_of_contract) THEN 422
    ELSE IF fault = "insert_error" THEN 500
    ELSE IF fault = "insert_no_data" THEN 400
    ELSE 200

\* the next_pms_schedule of insert_data
SeededNextPms(t, contract) ==
    IF contract.next_pms_schedule # NONE THEN contract.next_pms_schedule
    ELSE calculate_next_pms_from_contract_date(contract.date_of_contract, ContractType(t))

InsertData(t, contract, fault) ==
    [sq |-> IF contract.sq # NONE THEN contract.sq ELSE _get_next_sq(t, fault = "sq_select_error"),
     status |-> contract.status,
     next_pms_schedule |-> SeededNextPms(t, contract),
     end_of_contract |-> contract.end_of_contract,
     created_at |-> now]

\* sequential requests read distinct utcnow() values for created_at
create_contract(t, id, contract, fault) ==
    LET code == CreateCode(contract, fault)
        insert_data == InsertData(t, contract, fault)
    IN /\ FreshId(id)
       /\ \A i \in DOMAIN contracts[t] : contracts[t][i].created_at < now
       /\ contracts' =
            IF code = 200
            THEN [contracts EXCEPT ![t] =
                    [i \in DOMAIN @ \cup {id} |-> IF i = id THEN insert_data ELSE @[i]]]
            ELSE contracts
       /\ last' = [op |-> "create_contract", table |-> t, contract_id |-> id, code |-> code,
                   auto_sq |-> contract.sq = NONE]
       /\ UNCHANGED <<service_history, notifications, now, swept, calls>>

create_hardware_contract(id, contract, fault) ==
    create_contract("hardware_contracts", id, contract, fault)

create_label_contract(id, contract, fault) ==
    create_contract("label_contracts", id, contract, fault)

\* POST /hardware, /label store call by store call: _get_next_sq's select and
\* the rest of insert_data
create_read_sq(name, t, contract) ==
    /\ name \notin DOMAIN calls
    /\ CreateCode(contract, "none") = 200
    /\ calls' = Enter(name, [pc |-> "insert", table |-> t, auto_sq |-> contract.sq = NONE,
                             insert_data |-> InsertData(t, contract, "none")])
    /\ UNCHANGED <<contracts, service_history, notifications, now, last, swept>>

\* the insert; the store issues the id; created_at is read as the request's
\* last utcnow(), distinct from every stored one
create_insert(name, t, id) ==
    LET c == calls[name]
    IN /\ name \in DOMAIN calls
       /\ c.pc = "insert"
       /\ c.table = t
       /\ FreshId(id)
       /\ \A i \in DOMAIN contracts[t] : contracts[t][i].created_at < now
       /\ contracts' = [contracts EXCEPT ![t] =
                          [i \in DOMAIN @ \cup {id} |->
                              IF i = id THEN [c.insert_data EXCEPT !.created_at = now] ELSE @[i]]]
       /\ last' = [op |-> "create_contract", table |-> t, contract_id |-> id, code |-> 200,
                   auto_sq |-> c.auto_sq]
       /\ calls' = Leave(name)
       /\ UNCHANGED <<service_history, notifications, now, swept>>

-----------------------------------------------------------------------------
(* Service history maintenance: PUT /service-history/{id} *)

\* .update(data): the fields of `data` replace the row's
MergeRow(row, data) == [f \in DOMAIN row |-> IF f \in DOMAIN data THEN data[f] ELSE row[f]]

\* a row id is its position in the table; no row matched: 404 raised inside the
\* try and turned into 500 by `except Exception`
update_service_history(id, data, fault) ==
    LET found == id \in 1..Len(service_history)
        code == IF fault = "none" /\ found THEN 200 ELSE 500
    IN /\ service_history' =
            IF code = 200
            THEN [service_history EXCEPT ![id] = MergeRow(@, data)]
            ELSE service_history
       /\ last' = [op |-> "update_service_history", code |-> code]
       /\ UNCHANGED <<contracts, notifications, now, swept, calls>>

-----------------------------------------------------------------------------
(* Lifecycle monitor *)

\* variant: no status filter
AllRowIds(t) == DOMAIN contracts[t]

\* .select("*").neq("status", "expired")
NotExpiredIds(t) == {i \in DOMAIN contracts[t] : contracts[t][i].status # "expired"}

\* variant: a contract ending today is expired too
PastOrOnEndDate(end_of_contract, current_date) == DateOf(end_of_contract) <= current_date

\* end_date < current_date, both as dates
PastEndDate(end_of_contract, current_date) == DateOf(end_of_contract) < current_date

\* the contracts of one table whose loop body reaches the update
ExpiryCandidates(t, selected) ==
    {i \in selected :
        LET end_of_contract == contracts[t][i].end_of_contract
        IN /\ end_of_contract # NONE
           /\ Parses(end_of_contract)
           /\ PastEndDate(end_of_contract, DateOf(now))}

\* the contracts of one table whose loop body logs an error
ExpiryErrors(t, selected, failing) ==
    (ExpiryCandidates(t, selected) \cap failing)
    \cup {i \in selected : contracts[t][i].end_of_contract # NONE
                            /\ ~Parses(contracts[t][i].end_of_contract)}

\* `failing`: the ids whose status update raises; select_error: a select raises
check_expired_contracts(select_error, failing) ==
    LET hw_contracts == IF select_error THEN {} ELSE NotExpiredIds("hardware_contracts")
        label_contracts == IF select_error THEN {} ELSE NotExpiredIds("label_contracts")
        hw_written == ExpiryCandidates("hardware_contracts", hw_contracts) \ failing
        label_written == ExpiryCandidates("label_contracts", label_contracts) \ failing
        expire(t, written) ==
            [i \in DOMAIN contracts[t] |->
                IF i \in written THEN [contracts[t][i] EXCEPT !.status = "expired"]
                ELSE contracts[t][i]]
    IN /\ contracts' = [hardware_contracts |-> expire("hardware_contracts", hw_written),
                        label_contracts |-> expire("label_contracts", label_written)]
       /\ swept' = swept \cup hw_written \cup label_written
       /\ last' = [op |-> "check_expired_contracts",
                   errors |-> IF select_error THEN 1
                              ELSE Cardinality(ExpiryErrors("hardware_contracts", hw_contracts, failing))
                                   + Cardinality(ExpiryErrors("label_contracts", label_contracts, failing)),
                   expired_hw_count |-> Cardinality(hw_written),
                   expired_label_count |-> Cardinality(label_written)]
       /\ UNCHANGED <<service_history, notifications, now, calls>>

\* hw_response.data / label_response.data: the rows as they were when selected
Selected(t) ==
    LET ids == SeqOfSet(NotExpiredIds(t))
    IN [k \in 1..Len(ids) |-> [id |-> ids[k], end_of_contract |-> contracts[t][ids[k]].end_of_contract]]

\* check_expired_contracts store call by store call: current_date and the first select
expiry_select_hardware ==
    /\ "check_expired_contracts" \notin DOMAIN calls
    /\ calls' = Enter("check_expired_contracts",
                      [pc |-> "select_label", current_date |-> DateOf(now),
                       hw_contracts |-> Selected("hardware_contracts"), label_contracts |-> <<>>,
                       errors |-> 0, expired_hw_count |-> 0, expired_label_count |-> 0])
    /\ UNCHANGED <<contracts, service_history, notifications, now, last, swept>>

\* the second select
expiry_select_label ==
    /\ "check_expired_contracts" \in DOMAIN calls
    /\ calls["check_expired_contracts"].pc = "select_label"
    /\ calls' = Enter("check_expired_contracts",
                      [calls["check_expired_contracts"] EXCEPT
                         !.pc = "loop", !.label_contracts = Selected("label_contracts")])
    /\ UNCHANGED <<contracts, service_history, notifications, now, last, swept>>

\* the loop body decides on the selected row and the current_date of the start
ExpiryDecides(t, contract) ==
    /\ contract.end_of_contract # NONE
    /\ Parses(contract.end_of_contract)
    /\ PastEndDate(contract.end_of_contract, calls["check_expired_contracts"].current_date)

\* one pass of a loop body (`fail`: its update raises), or the end of the job
expiry_step(fail) ==
    LET c == calls["check_expired_contracts"]
        t == IF c.hw_contracts # <<>> THEN "hardware_contracts" ELSE "label_contracts"
        rows == IF c.hw_contracts # <<>> THEN c.hw_contracts ELSE c.label_contracts
        contract == Head(rows)
        decided == ExpiryDecides(t, contract)
        written == decided /\ ~fail /\ contract.id \in DOMAIN contracts[t]
        raised == (decided /\ fail)
                  \/ (contract.end_of_contract # NONE /\ ~Parses(contract.end_of_contract))
    IN /\ "check_expired_contracts" \in DOMAIN calls
       /\ c.pc = "loop"
       /\ IF rows = <<>>
          THEN /\ calls' = Leave("check_expired_contracts")
               /\ last' = [op |-> "check_expired_contracts", errors |-> c.errors,
                           expired_hw_count |-> c.expired_hw_count,
                           expired_label_count |-> c.expired_label_count]
               /\ UNCHANGED <<contracts, swept>>
          ELSE /\ contracts' =
                    IF written
                    THEN SetRow(t, contract.id, [contracts[t][contract.id] EXCEPT !.status = "expired"])
                    ELSE contracts
               /\ swept' = IF written THEN swept \cup {contract.id} ELSE swept
               /\ calls' = Enter("check_expired_contracts",
                     [c EXCEPT
                        !.hw_contracts = IF t = "hardware_contracts" THEN Tail(@) ELSE @,
                        !.label_contracts = IF t = "label_contracts" THEN Tail(@) ELSE @,
                        !.errors = IF raised THEN @ + 1 ELSE @,
                        !.expired_hw_count =
                            IF decided /\ ~fail /\ t = "hardware_contracts" THEN @ + 1 ELSE @,
                        !.expired_label_count =
                            IF decided /\ ~fail /\ t = "label_contracts" THEN @ + 1 ELSE @])
               /\ UNCHANGED last
       /\ UNCHANGED <<service_history, notifications, now>>

\* variant: no role filter
AllUsers == UserOrder

\* .in_("role", ["technician", "admin"])
Recipients == SelectSeq(UserOrder, LAMBDA u : users[u] \in {"technician", "admin"})

NotificationData(user_id, contract_id) ==
    [user_id |-> user_id, notification_type |-> "maintenance_reminder",
     contract_id |-> contract_id, is_read |-> FALSE]

\* variant: a contract that already has a reminder is skipped
SentForOnce(contract_id, ok) ==
    IF \E j \in 1..Len(notifications) :
            /\ notifications[j].contract_id = contract_id
            /\ notifications[j].notification_type = "maintenance_reminder"
    THEN <<>>
    ELSE [k \in 1..(IF ok < Len(Recipients) THEN ok ELSE Len(Recipients)) |->
            NotificationData(Recipients[k], contract_id)]

\* the rows send_maintenance_notification inserts before its `ok`+1-th insert raises
SentFor(contract_id, ok) ==
    [k \in 1..(IF ok < Len(Recipients) THEN ok ELSE Len(Recipients)) |->
        NotificationData(Recipients[k], contract_id)]

RECURSIVE SendAll(_, _)
SendAll(upcoming, ok) ==
    IF upcoming = <<>> THEN <<>>
    ELSE SentFor(Head(upcoming), ok[Head(upcoming)]) \o SendAll(Tail(upcoming), ok)

\* variant: the window's last instant is left out
DueBefore(next_pms_schedule, upcoming_date) == next_pms_schedule < upcoming_date

\* next_maintenance <= upcoming_date
DueBy(next_pms_schedule, upcoming_date) == next_pms_schedule <= upcoming_date

\* `ok`: per contract, the number of inserts that succeed before one raises
check_upcoming_maintenance(select_error, ok) ==
    LET all_contracts == IF select_error THEN {}
                         ELSE NotExpiredIds("hardware_contracts") \cup NotExpiredIds("label_contracts")
        row(i) == IF i \in DOMAIN contracts["hardware_contracts"]
                  THEN contracts["hardware_contracts"][i] ELSE contracts["label_contracts"][i]
        scheduled == {i \in all_contracts : row(i).next_pms_schedule # NONE}
        raised == \E i \in scheduled : ~Parses(row(i).next_pms_schedule)
        upcoming_date == now + Days(UpcomingWindowDays)
        upcoming_contracts ==
            IF raised THEN {}
            ELSE {i \in scheduled : DueBy(row(i).next_pms_schedule, upcoming_date)}
        sent == SendAll(SeqOfSet(upcoming_contracts), ok)
    IN /\ Len(notifications) + Len(sent) <= MaxNotifications
       /\ notifications' = notifications \o sent
       /\ last' = [op |-> "check_upcoming_maintenance",
                   errors |-> IF select_error \/ raised THEN 1
                              ELSE Cardinality({i \in upcoming_contracts : ok[i] < Len(Recipients)}),
                   checked |-> IF select_error \/ raised THEN 0 ELSE Cardinality(all_contracts),
                   found |-> Cardinality(upcoming_contracts)]
       /\ UNCHANGED <<contracts, service_history, now, swept, calls>>

generate_weekly_reports(insert_error) ==
    LET week_ago == now - Days(7)
        done == Cardinality({k \in 1..Len(service_history) :
                               service_history[k].service_date >= week_ago})
        sent == IF insert_error THEN <<>>
                ELSE [k \in 1..Len(Recipients) |->
                        [user_id |-> Recipients[k], notification_type |-> "weekly_report",
                         contract_id |-> "", is_read |-> FALSE]]
    IN /\ Len(notifications) + Len(sent) <= MaxNotifications
       /\ notifications' = notifications \o sent
       /\ last' = [op |-> "generate_weekly_reports", errors |-> IF insert_error THEN 1 ELSE 0,
                   completed |-> IF insert_error THEN 0 ELSE done]
       /\ UNCHANGED <<contracts, service_history, now, swept, calls>>

Tick ==
    /\ now < NowStart + MaxClock
    /\ now' = now + 1
    /\ last' = Idle
    /\ UNCHANGED <<contracts, service_history, notifications, swept, calls>>

-----------------------------------------------------------------------------
(* Inputs and initial stores *)

\* completion_date query values: absent, unparseable, a past midnight, 9999-12-31
PastCompletion == NowStart - Days(100) - 1

LastDayCompletion == Days(MaxOrdinal)

CompletionDates == {NONE, BAD, PastCompletion, LastDayCompletion}

\* next_pms_schedule values around the 7 day window of NowStart
DueAtWindowEnd == NowStart + Days(UpcomingWindowDays)

DueAfterWindow == DueAtWindowEnd + 1

\* end_of_contract values around the date of NowStart
EndYesterday == NowStart - TicksPerDay

EndTodayEarly == NowStart - 1

EndTomorrowLate == NowStart + TicksPerDay

Rows(statuses, nexts, ends) ==
    [sq : {3}, status : statuses, next_pms_schedule : nexts, end_of_contract : ends,
     created_at : {NowStart - Days(10)}]

InitWith(hw_rows, label_rows) ==
    /\ contracts \in {[hardware_contracts |-> [i \in {"h1"} |-> h],
                        label_contracts |-> [i \in {"l1"} |-> l]] :
                          h \in hw_rows, l \in label_rows}
    /\ service_history = <<>>
    /\ notifications = <<>>
    /\ now = NowStart
    /\ last = Idle
    /\ swept = {}
    /\ calls = <<>>

Updates(statuses, nexts, ends) ==
    [status : statuses, next_pms_schedule : nexts, end_of_contract : ends]

SendOutcomes == [RequestIds -> 0..Len(Recipients)]

-----------------------------------------------------------------------------
(* The whole system *)

Init == InitWith(Rows({"active"}, {NONE}, {EndTodayEarly}),
                 Rows({"pending"}, {DueAtWindowEnd}, {EndYesterday}))

SpecUpdates == Updates({Unset, "active", "expired"}, {NONE}, {NONE, EndYesterday})

AllSent == [i \in RequestIds |-> Len(Recipients)]

Next ==
    \/ \E id \in RequestIds : complete_hardware_pms(id, NONE, "none")
    \/ \E id \in RequestIds : complete_label_pms(id, NONE, "none")
    \/ \E id \in RequestIds, u \in SpecUpdates : update_hardware_contract(id, u, "none")
    \/ \E id \in RequestIds, u \in SpecUpdates : update_label_contract(id, u, "none")
    \/ \E id \in RequestIds : delete_hardware_contract(id)
    \/ \E id \in RequestIds : delete_label_contract(id)
    \/ resequence_hardware_sq(1)
    \/ resequence_label_sq(1)
    \/ check_expired_contracts(FALSE, {})
    \/ check_upcoming_maintenance(FALSE, AllSent)
    \/ generate_weekly_reports(FALSE)
    \/ Tick

Spec == Init /\ [][Next]_vars

-----------------------------------------------------------------------------
(* The completion reconciler under every store fault *)

InitReconcile == InitWith(Rows(ContractStatus, {NONE, DueAtWindowEnd}, {EndTomorrowLate}),
                          Rows({"active", "expired"}, {DueAtWindowEnd}, {EndTomorrowLate}))

NextReconcile ==
    \/ \E id \in RequestIds, d \in CompletionDates, f \in CompletionFaults :
            complete_hardware_pms(id, d, f)
    \/ \E id \in RequestIds, d \in CompletionDates, f \in CompletionFaults :
            complete_label_pms(id, d, f)
    \/ \E id \in RequestIds : delete_hardware_contract(id)
    \/ \E id \in RequestIds : delete_label_contract(id)
    \/ Tick

SpecReconcile == InitReconcile /\ [][NextReconcile]_vars

-----------------------------------------------------------------------------
(* The expiry sweep, with the jobs start_scheduler registers running fairly *)

EndDates == {NONE, BAD, EndYesterday, EndTodayEarly, EndTomorrowLate}

InitExpiry == InitWith(Rows(ContractStatus, {NONE}, EndDates), Rows(ContractStatus, {NONE}, EndDates))

ExpiryUpdates == Updates({Unset, "active"}, {NONE}, {NONE, EndTomorrowLate})

\* scheduler.add_job(check_upcoming_maintenance, ...), scheduler.add_job(generate_weekly_reports, ...)
RegisteredJobs ==
    \/ \E e \in BOOLEAN, ok \in SendOutcomes : check_upcoming_maintenance(e, ok)
    \/ \E e \in BOOLEAN : generate_weekly_reports(e)

NextExpiry ==
    \/ RegisteredJobs
    \/ \E e \in BOOLEAN, failing \in SUBSET RequestIds : check_expired_contracts(e, failing)
    \/ \E id \in RequestIds, u \in ExpiryUpdates : update_hardware_contract(id, u, "none")
    \/ \E id \in RequestIds, u \in ExpiryUpdates : update_label_contract(id, u, "none")
    \/ Tick

SpecExpiry == InitExpiry /\ [][NextExpiry]_vars /\ WF_vars(RegisteredJobs)

-----------------------------------------------------------------------------
(* The due-soon scan *)

Overdue == NowStart - Days(3)

DueDates == {NONE, BAD, Overdue, DueAtWindowEnd, DueAfterWindow}

InitDueSoon == InitWith(Rows(ContractStatus, DueDates, {EndTomorrowLate}),
                        Rows(ContractStatus, DueDates, {EndTomorrowLate}))

DueSoonUpdates == Updates({Unset, "expired", "inactive"}, {NONE, DueAtWindowEnd}, {NONE})

\* every insert succeeds; the inserts for h1 fail; the second insert for l1 fails
DueSoonOutcomes == {AllSent, [h1 |-> 0, l1 |-> Len(Recipients)], [h1 |-> Len(Recipients), l1 |-> 1]}

NextDueSoon ==
    \/ \E e \in BOOLEAN, ok \in DueSoonOutcomes : check_upcoming_maintenance(e, ok)
    \/ \E id \in RequestIds, u \in DueSoonUpdates : update_hardware_contract(id, u, "none")
    \/ \E id \in RequestIds, u \in DueSoonUpdates : update_label_contract(id, u, "none")
    \/ Tick

SpecDueSoon == InitDueSoon /\ [][NextDueSoon]_vars

-----------------------------------------------------------------------------
(* Service history under the operations that write it *)

HistoryIds == 1..2

HistoryUpdates == {[status |-> "cancelled"], [service_date |-> PastCompletion, service_type |-> "repair"]}

InitHistory == InitWith(Rows({"active"}, {NONE, DueAtWindowEnd}, {EndTomorrowLate}),
                        Rows({"active"}, {NONE, DueAtWindowEnd}, {EndTomorrowLate}))

NextHistory ==
    \/ \E id \in RequestIds, d \in CompletionDates, f \in CompletionFaults :
            complete_hardware_pms(id, d, f)
    \/ \E id \in RequestIds, d \in CompletionDates, f \in CompletionFaults :
            complete_label_pms(id, d, f)
    \/ \E id \in HistoryIds, data \in HistoryUpdates, f \in {"none", "update_error"} :
            update_service_history(id, data, f)
    \/ \E id \in RequestIds : delete_hardware_contract(id)
    \/ \E id \in RequestIds : delete_label_contract(id)
    \/ Tick

SpecHistory == InitHistory /\ [][NextHistory]_vars

-----------------------------------------------------------------------------
(* Every operation that writes a contract row *)

ContractCreates(sqs, statuses, nexts, dates, ends) ==
    [sq : sqs, status : statuses, next_pms_schedule : nexts, date_of_contract : dates,
     end_of_contract : ends]

\* hardware holds h1, the label table is empty
InitOwnership ==
    /\ contracts \in {[hardware_contracts |-> [i \in {"h1"} |-> h],
                        label_contracts |-> [i \in {} |-> h]] :
                          h \in Rows({"active"}, {NONE, DueAtWindowEnd}, {EndYesterday})}
    /\ service_history = <<>>
    /\ notifications = <<>>
    /\ now = NowStart
    /\ last = Idle
    /\ swept = {}
    /\ calls = <<>>

OwnershipUpdates == Updates({Unset}, {NONE, DueAfterWindow}, {NONE})

OwnershipCreates == ContractCreates({NONE, BAD}, {"active"}, {NONE}, {NowStart}, {EndTomorrowLate})

NextOwnership ==
    \/ \E id \in RequestIds : complete_hardware_pms(id, NONE, "none")
    \/ \E id \in RequestIds : complete_label_pms(id, NONE, "none")
    \/ \E c \in OwnershipCreates : create_hardware_contract("h1", c, "none")
    \/ \E c \in OwnershipCreates : create_label_contract("l1", c, "none")
    \/ \E id \in RequestIds, u \in OwnershipUpdates : update_hardware_contract(id, u, "none")
    \/ \E id \in RequestIds, u \in OwnershipUpdates : update_label_contract(id, u, "none")
    \/ \E id \in RequestIds : delete_hardware_contract(id)
    \/ \E id \in RequestIds : delete_label_contract(id)
    \/ \E done \in 0..1 : backfill_hardware_sq(done)
    \/ \E done \in 0..1 : backfill_label_sq(done)
    \/ \E done \in 0..1 : resequence_hardware_sq(done)
    \/ \E done \in 0..1 : resequence_label_sq(done)
    \/ check_expired_contracts(FALSE, {})
    \/ check_upcoming_maintenance(FALSE, AllSent)
    \/ Tick

SpecOwnership == InitOwnership /\ [][NextOwnership]_vars

-----------------------------------------------------------------------------
(* Contract creation under every request the endpoints accept or reject *)

\* date_of_contract values: absent, unparseable, five days ago
ContractDate == NowStart - Days(5)

CreateRequests ==
    ContractCreates({NONE}, {"active", "pending", "expired"}, {NONE, DueAfterWindow},
                    {NONE, BAD, ContractDate}, {EndTomorrowLate})

NextCreate ==
    \/ \E c \in CreateRequests, f \in CreateFaults : create_hardware_contract("h2", c, f)
    \/ \E c \in CreateRequests, f \in CreateFaults : create_label_contract("l1", c, f)
    \/ \E id \in {"h1", "h2", "l1"} : delete_hardware_contract(id)
    \/ \E id \in {"h1", "h2", "l1"} : delete_label_contract(id)
    \/ Tick

SpecCreate == InitOwnership /\ [][NextCreate]_vars

-----------------------------------------------------------------------------
(* SQ numbering: creation, deletion, backfill, resequencing *)

\* sq of a create request: blank, a number below the stored ones, text
SqRequests == ContractCreates({NONE, 2, BAD}, {"active"}, {NONE}, {ContractDate}, {EndTomorrowLate})

HardwareIds == {"h1", "h2", "h3"}

MaxRows == 3

NextSq ==
    \/ \E id \in HardwareIds \ {"h1"}, c \in SqRequests, f \in {"none", "sq_select_error"} :
            create_hardware_contract(id, c, f)
    \/ \E c \in SqRequests : create_label_contract("l1", c, "none")
    \/ \E id \in HardwareIds : delete_hardware_contract(id)
    \/ delete_label_contract("l1")
    \/ \E done \in 0..MaxRows : resequence_hardware_sq(done)
    \/ \E done \in 0..MaxRows : resequence_label_sq(done)
    \/ \E done \in 0..MaxRows : backfill_hardware_sq(done)
    \/ \E done \in 0..MaxRows : backfill_label_sq(done)
    \/ Tick

SpecSq == InitOwnership /\ [][NextSq]_vars

-----------------------------------------------------------------------------
(* The expiry sweep store call by store call, beside administrative updates *)

InitExpiryRace == InitWith(Rows({"active"}, {NONE}, {EndYesterday, EndTomorrowLate}),
                           Rows({"active"}, {NONE}, {EndYesterday, EndTomorrowLate}))

NextExpiryRace ==
    \/ expiry_select_hardware
    \/ expiry_select_label
    \/ \E fail \in BOOLEAN : expiry_step(fail)
    \/ \E id \in RequestIds, u \in ExpiryUpdates : update_hardware_contract(id, u, "none")
    \/ \E id \in RequestIds, u \in ExpiryUpdates : update_label_contract(id, u, "none")
    \/ \E id \in RequestIds : delete_label_contract(id)
    \/ Tick

SpecExpiryRace == InitExpiryRace /\ [][NextExpiryRace]_vars

-----------------------------------------------------------------------------
(* Two complete-pms requests store call by store call *)

CompletionCalls == {"complete_pms_1", "complete_pms_2"}

InitCompletionRace == InitWith(Rows({"active"}, {NONE, DueAtWindowEnd}, {EndTomorrowLate}),
                               Rows({"active"}, {NONE, DueAtWindowEnd}, {EndTomorrowLate}))

NextCompletionRace ==
    \/ \E name \in CompletionCalls, t \in Tables, id \in RequestIds, d \in CompletionDates :
            complete_select(name, t, id, d)
    \/ \E name \in CompletionCalls : complete_insert(name)
    \/ \E name \in CompletionCalls : complete_update(name)
    \/ Tick

SpecCompletionRace == InitCompletionRace /\ [][NextCompletionRace]_vars

-----------------------------------------------------------------------------
(* Two create requests store call by store call, sq left blank *)

CreateCalls == {"create_1", "create_2"}

AutoSqRequests ==
    ContractCreates({NONE}, {"active"}, {NONE, DueAfterWindow}, {ContractDate}, {EndTomorrowLate})

IssuedIds(t) == IF t = "hardware_contracts" THEN {"h2", "h3"} ELSE {"l1", "l2"}

NextCreateRace ==
    \/ \E name \in CreateCalls, t \in Tables, c \in AutoSqRequests : create_read_sq(name, t, c)
    \/ \E name \in CreateCalls, t \in Tables : \E id \in IssuedIds(t) :
            create_insert(name, t, id)
    \/ Tick

SpecCreateRace == InitOwnership /\ [][NextCreateRace]_vars

-----------------------------------------------------------------------------
(* The date helpers of scheduler.py applied to every kind of input *)

\* None
Absent == <<>>

\* a string that names no date
Unparseable == <<2024, 2, 30, 0>>

\* a date argument: NONE for None, BAD for a string fromisoformat rejects
ParseInput(date) == IF date = Absent THEN NONE ELSE fromisoformat(date)

ContractTypes == {"hardware", "label", "other"}

AnchorInputs == {Absent, Unparseable, <<2024, 1, 1, 0>>, <<2024, 1, 1, 1>>}

EndInputs ==
    {Absent, Unparseable, <<2023, 12, 31, 1>>, <<2024, 1, 1, 0>>, <<2024, 1, 30, 1>>,
     <<2024, 1, 31, 0>>, <<2024, 1, 31, 1>>, <<2024, 3, 31, 0>>, <<2024, 6, 29, 1>>,
     <<2024, 12, 31, 0>>}

ScheduleInputs == {Absent, Unparseable, <<2024, 5, 1, 1>>}

InitHelpers ==
    /\ contracts = [hardware_contracts |-> [i \in {} |-> 0], label_contracts |-> [i \in {} |-> 0]]
    /\ service_history = <<>>
    /\ notifications = <<>>
    /\ now = NowStart
    /\ last \in [op : {"request"}, contract_date : AnchorInputs, end_date : EndInputs,
                  contract_type : ContractTypes, current_schedule : ScheduleInputs,
                  result : {NONE}, pms_schedules : {<<>>}, code : {0}, total_schedules : {0}]
    /\ swept = {}
    /\ calls = <<>>

\* the caller passes a datetime, as create_hardware_contract does, or None / a string
Call_calculate_next_pms_from_contract_date ==
    /\ last.op = "request"
    /\ last' = [last EXCEPT
                  !.op = "calculate_next_pms_from_contract_date",
                  !.result = calculate_next_pms_from_contract_date(
                                ParseInput(last.contract_date), last.contract_type)]
    /\ UNCHANGED <<contracts, service_history, notifications, now, swept, calls>>

Call_calculate_next_pms_schedule ==
    /\ last.op = "request"
    /\ last' = [last EXCEPT
                  !.op = "calculate_next_pms_schedule",
                  !.result = calculate_next_pms_schedule(
                                ParseInput(last.contract_date), last.contract_type,
                                ParseInput(last.current_schedule))]
    /\ UNCHANGED <<contracts, service_history, notifications, now, swept, calls>>

Call_generate_full_pms_schedule ==
    /\ last.op = "request"
    /\ last' = [last EXCEPT
                  !.op = "generate_full_pms_schedule",
                  !.pms_schedules = IsoSchedule(generate_full_pms_schedule(
                                ParseInput(last.contract_date), ParseInput(last.end_date),
                                last.contract_type))]
    /\ UNCHANGED <<contracts, service_history, notifications, now, swept, calls>>

\* GET /{hardware,label}/{contract_id}/pms-schedule on a row whose date_of_contract
\* and end_of_contract are the two date arguments
get_pms_schedule(contract_type) ==
    LET pms_schedules == IsoSchedule(generate_full_pms_schedule(
                            ParseInput(last.contract_date), ParseInput(last.end_date), contract_type))
    IN /\ last.op = "request"
       /\ last.contract_type = contract_type
       /\ last' = [last EXCEPT !.op = "get_pms_schedule", !.code = 200,
                                !.pms_schedules = pms_schedules,
                                !.total_schedules = Len(pms_schedules)]
       /\ UNCHANGED <<contracts, service_history, notifications, now, swept, calls>>

get_hardware_pms_schedule == get_pms_schedule("hardware")

get_label_pms_schedule == get_pms_schedule("label")

\* the create request whose date_of_contract is the date argument
HelperCreate ==
    [sq |-> NONE, status |-> "active", next_pms_schedule |-> NONE,
     date_of_contract |-> ParseInput(last.contract_date), end_of_contract |-> EndTomorrowLate]

NextHelpers ==
    \/ Call_calculate_next_pms_from_contract_date
    \/ Call_calculate_next_pms_schedule
    \/ Call_generate_full_pms_schedule
    \/ get_hardware_pms_schedule
    \/ get_label_pms_schedule
    \/ (last.op = "request" /\ last.contract_type = "hardware"
          /\ create_hardware_contract("h1", HelperCreate, "none"))
    \/ (last.op = "request" /\ last.contract_type = "label"
          /\ create_label_contract("l1", HelperCreate, "none"))

SpecHelpers == InitHelpers /\ [][NextHelpers]_vars

-----------------------------------------------------------------------------
(* Properties of the completion reconciler *)

CompletionStep == last'.op = "complete_pms"

CompletedTable == last'.table

CompletedId == last'.contract_id

NewEvent == service_history'[Len(service_history')]

ClaimCadence(t) == IF t = "hardware_contracts" THEN Days(90) ELSE Days(30)

\* C1: a complete-pms call is all-or-nothing: after it returns, fails or stops,
\* either its ServiceEvent exists and the contract's next_pms_schedule is the
\* completion date plus the cadence, or no event was appended and
\* next_pms_schedule is what it was.
C1_AllOrNothing ==
    [][CompletionStep =>
         \/ /\ Len(service_history') = Len(service_history) + 1
            /\ NewEvent.contract_id = CompletedId
            /\ Exists(CompletedTable, CompletedId)
            /\ contracts'[CompletedTable][CompletedId].next_pms_schedule
                  = NewEvent.service_date + ClaimCadence(CompletedTable)
         \/ /\ service_history' = service_history
            /\ contracts' = contracts]_vars

\* C2: a successful complete-pms stores next_pms_schedule = d + 90 days (hardware)
\* or d + 30 days (label), d being the supplied completion date when it parses
\* and the current time otherwise, whatever the previous next_pms_schedule was;
\* the response carries the stored value and the id of the event it created.
C2_StoresCompletionPlusCadence ==
    [][\A id \in RequestIds, d \in CompletionDates :
         /\ (complete_hardware_pms(id, d, "none") /\ Exists("hardware_contracts", id)
              /\ last'.code = 200
                => /\ contracts'["hardware_contracts"][id].next_pms_schedule
                        = (IF d >= 0 THEN d ELSE now) + 90 * TicksPerDay
                   /\ last'.next_pms_schedule
                        = contracts'["hardware_contracts"][id].next_pms_schedule)
         /\ (complete_label_pms(id, d, "none") /\ Exists("label_contracts", id)
              /\ last'.code = 200
                => /\ contracts'["label_contracts"][id].next_pms_schedule
                        = (IF d >= 0 THEN d ELSE now) + 30 * TicksPerDay
                   /\ last'.next_pms_schedule
                        = contracts'["label_contracts"][id].next_pms_schedule)
         /\ ((complete_hardware_pms(id, d, "none") \/ complete_label_pms(id, d, "none"))
              /\ last'.code = 200
                => /\ last'.service_history_id = Len(service_history')
                   /\ Len(service_history') = Len(service_history) + 1
                   /\ NewEvent.contract_id = id
                   /\ NewEvent.service_date = (IF d >= 0 THEN d ELSE now))]_vars

C2_Witness ==
    /\ last.op = "complete_pms" /\ last.code = 200 /\ last.table = "label_contracts"
    /\ last.next_pms_schedule = PastCompletion + Days(30)
    /\ contracts["label_contracts"]["l1"].next_pms_schedule = PastCompletion + Days(30)
    /\ service_history[last.service_history_id].service_date = PastCompletion

\* C3 as claimed: a successful complete-pms leaves next_pms_schedule strictly
\* later than it was before the call.
C3_AlwaysLaterThanBefore ==
    [][CompletionStep /\ last'.code = 200
       /\ contracts[CompletedTable][CompletedId].next_pms_schedule >= 0
         => contracts'[CompletedTable][CompletedId].next_pms_schedule
              > contracts[CompletedTable][CompletedId].next_pms_schedule]_vars

\* C3 amended: a successful complete-pms leaves next_pms_schedule strictly later
\* than the effective completion date, and strictly later than its previous
\* value when that value is earlier than the completion date plus the cadence.
C3_LaterThanCompletion ==
    [][CompletionStep /\ last'.code = 200
         => LET before == contracts[CompletedTable][CompletedId].next_pms_schedule
                after == contracts'[CompletedTable][CompletedId].next_pms_schedule
            IN /\ after > NewEvent.service_date
               /\ (before >= 0 /\ before < NewEvent.service_date + ClaimCadence(CompletedTable)
                     => after > before)]_vars

\* a back-dated completion has moved next_pms_schedule to before the old due date
C3_Witness ==
    /\ last.op = "complete_pms" /\ last.code = 200 /\ last.table = "hardware_contracts"
    /\ service_history[last.service_history_id].service_date = PastCompletion
    /\ contracts["hardware_contracts"]["h1"].next_pms_schedule < DueAtWindowEnd

\* C4: complete-pms on an id with no row in the class's table answers 404 and
\* changes neither service_history nor any contract.
C4_NotFoundLeavesStore ==
    [][\A id \in RequestIds, d \in CompletionDates, f \in CompletionFaults :
         /\ (last'.op = "complete_pms" /\ last'.contract_id = id
              /\ last'.table = "hardware_contracts" /\ ~Exists("hardware_contracts", id)
              /\ complete_hardware_pms(id, d, f)
                => /\ service_history' = service_history /\ contracts' = contracts
                   /\ (f # "select_error" => last'.code = 404))
         /\ (last'.op = "complete_pms" /\ last'.contract_id = id
              /\ last'.table = "label_contracts" /\ ~Exists("label_contracts", id)
              /\ complete_label_pms(id, d, f)
                => /\ service_history' = service_history /\ contracts' = contracts
                   /\ (f # "select_error" => last'.code = 404))]_vars

C4_Witness ==
    /\ last.op = "complete_pms" /\ last.code = 404
    /\ ~Exists(last.table, last.contract_id)
    /\ last.service_history_id = 0

-----------------------------------------------------------------------------
(* Properties of the expiry sweep *)

RowPastEnd(row) ==
    /\ row.end_of_contract >= 0
    /\ (row.end_of_contract \div TicksPerDay) < (now \div TicksPerDay)

Expirable(row) == row.status # "expired" /\ RowPastEnd(row)

\* C5: with the jobs start_scheduler registers firing fairly, a contract that
\* is past its end date and not expired eventually has status expired.
C5_EventuallyExpired ==
    \A t \in Tables : \A id \in TableIds[t] :
        (Exists(t, id) /\ Expirable(contracts[t][id]))
          ~> (~Exists(t, id) \/ ~Expirable(contracts[t][id]))

\* C6: one run of check_expired_contracts in which no store call fails sets
\* status expired on exactly the rows of both tables that were not expired and
\* whose end_of_contract date is before today's date, and changes no other row.
C6_ExpiresExactlyPastEnd ==
    [][check_expired_contracts(FALSE, {})
         => /\ \A t \in Tables : \A id \in DOMAIN contracts[t] :
                 contracts'[t][id] =
                    IF Expirable(contracts[t][id])
                    THEN [contracts[t][id] EXCEPT !.status = "expired"]
                    ELSE contracts[t][id]
            /\ last'.expired_hw_count + last'.expired_label_count
                 = Cardinality({id \in RequestIds : \E t \in Tables :
                                  Exists(t, id) /\ Expirable(contracts[t][id])})]_vars

\* the sweep expired h1 and kept l1, whose end date is today at an earlier time
C6_Witness ==
    /\ last.op = "check_expired_contracts" /\ last.errors = 0
    /\ last.expired_hw_count = 1 /\ last.expired_label_count = 0
    /\ contracts["hardware_contracts"]["h1"].status = "expired"
    /\ now = NowStart
    /\ contracts["label_contracts"]["l1"].end_of_contract = EndTodayEarly
    /\ contracts["label_contracts"]["l1"].status = "pending"

\* C7: a run of check_expired_contracts that directly follows a run without
\* errors writes no status and counts zero expirations.
C7_SecondRunNoOp ==
    [][(/\ last.op = "check_expired_contracts" /\ last.errors = 0
        /\ \E e \in BOOLEAN, failing \in SUBSET RequestIds : check_expired_contracts(e, failing))
         => /\ contracts' = contracts
            /\ last'.expired_hw_count = 0 /\ last'.expired_label_count = 0
            /\ last'.errors <= 1]_vars

\* a run counted nothing while the rows an earlier run expired are still expired
C7_Witness ==
    /\ last.op = "check_expired_contracts" /\ last.errors = 0
    /\ last.expired_hw_count = 0 /\ last.expired_label_count = 0
    /\ swept = {"h1", "l1"}
    /\ contracts["hardware_contracts"]["h1"].status = "expired"
    /\ contracts["label_contracts"]["l1"].status = "expired"

\* C8 as claimed: a row whose status the sweep set to expired stays expired.
C8_SweptStaysExpired ==
    \A t \in Tables : \A id \in DOMAIN contracts[t] :
        id \in swept => contracts[t][id].status = "expired"

\* C8 amended: only the contract update (PUT) takes a row out of status
\* expired; complete-pms, both scans, the weekly report and resequencing
\* leave an expired row expired.
C8_OnlyUpdateLeavesExpired ==
    [][\A t \in Tables : \A id \in DOMAIN contracts[t] :
         (contracts[t][id].status = "expired" /\ id \in DOMAIN contracts'[t]
          /\ contracts'[t][id].status # "expired")
            => last'.op = "update_contract"]_vars

\* complete-pms has run on a row the sweep expired
C8_Witness ==
    /\ last.op = "complete_pms" /\ last.code = 200
    /\ last.contract_id \in swept
    /\ contracts[last.table][last.contract_id].status = "expired"

-----------------------------------------------------------------------------
(* Properties of the due-soon scan *)

RowOfId(id) ==
    IF id \in DOMAIN contracts["hardware_contracts"]
    THEN contracts["hardware_contracts"][id] ELSE contracts["label_contracts"][id]

StoredIds == DOMAIN contracts["hardware_contracts"] \cup DOMAIN contracts["label_contracts"]

ClaimMatched ==
    {id \in StoredIds :
        /\ RowOfId(id).status # "expired"
        /\ RowOfId(id).next_pms_schedule >= 0
        /\ RowOfId(id).next_pms_schedule <= now + 7 * TicksPerDay}

\* every next_pms_schedule the scan parses is well formed
ScanCompletes ==
    \A id \in StoredIds : RowOfId(id).status # "expired" => RowOfId(id).next_pms_schedule # BAD

Sent == SubSeq(notifications', Len(notifications) + 1, Len(notifications'))

C10_OnePerOperationalUser ==
    [][check_upcoming_maintenance(FALSE, AllSent) /\ ScanCompletes
         => /\ \A id \in ClaimMatched : \A u \in DOMAIN users :
                 Cardinality({k \in 1..Len(Sent) :
                                Sent[k].user_id = u /\ Sent[k].contract_id = id})
                   = IF users[u] \in {"technician", "admin"} THEN 1 ELSE 0
            /\ \A k \in 1..Len(Sent) :
                 /\ Sent[k].is_read = FALSE
                 /\ Sent[k].contract_id \in ClaimMatched]_vars

C10_Witness ==
    /\ last.op = "check_upcoming_maintenance" /\ last.errors = 0 /\ last.found = 2
    /\ Len(notifications) = 4
    /\ {<<notifications[k].user_id, notifications[k].contract_id>> : k \in 1..4}
         = {<<"u1", "h1">>, <<"u2", "h1">>, <<"u1", "l1">>, <<"u2", "l1">>}

-----------------------------------------------------------------------------
(* Properties of the service history *)

\* C11: service history is append-only: every step keeps each stored event
\* equal to what it was and removes none.
C11_AppendOnly ==
    [][/\ Len(service_history') >= Len(service_history)
       /\ \A k \in 1..Len(service_history) : service_history'[k] = service_history[k]]_vars

-----------------------------------------------------------------------------
(* Properties of contract rows *)

\* C12: only create and complete-pms write next_pms_schedule: a step of any
\* other operation leaves the next_pms_schedule of every contract it keeps
\* as it was.
C12_OnlyCreateAndCompleteWriteNextPms ==
    [][\A t \in Tables : \A id \in DOMAIN contracts[t] \cap DOMAIN contracts'[t] :
         contracts'[t][id].next_pms_schedule # contracts[t][id].next_pms_schedule
           => last'.op \in {"create_contract", "complete_pms"}]_vars

\* C13: every contract a successful create produces has status active and
\* next_pms_schedule = date_of_contract + 90 days (hardware) or + 30 days (label).
C13_CreatedActiveAndSeeded ==
    [][\A c \in CreateRequests, f \in CreateFaults :
         /\ (create_hardware_contract("h2", c, f) /\ last'.code = 200)
              => /\ contracts'["hardware_contracts"]["h2"].status = "active"
                 /\ contracts'["hardware_contracts"]["h2"].next_pms_schedule
                      = c.date_of_contract + 90 * TicksPerDay
         /\ (create_label_contract("l1", c, f) /\ last'.code = 200)
              => /\ contracts'["label_contracts"]["l1"].status = "active"
                 /\ contracts'["label_contracts"]["l1"].next_pms_schedule
                      = c.date_of_contract + 30 * TicksPerDay]_vars

-----------------------------------------------------------------------------
(* Properties of SQ numbering *)

SqDense(rows) ==
    /\ {rows[i].sq : i \in DOMAIN rows} = 1..Cardinality(DOMAIN rows)
    /\ \A i, j \in DOMAIN rows : rows[i].created_at < rows[j].created_at => rows[i].sq < rows[j].sq

\* C14: after a resequencing that completes on a table of N rows the sq values
\* are exactly 1..N, no gap and no duplicate, in ascending created_at order,
\* and nothing else of any row has changed.
C14_ResequenceDense ==
    [][\A done \in 0..MaxRows :
         /\ (resequence_hardware_sq(done) /\ last'.code = 200)
               => /\ SqDense(contracts'["hardware_contracts"])
                  /\ last'.updated = Cardinality(DOMAIN contracts["hardware_contracts"])
                  /\ contracts'["label_contracts"] = contracts["label_contracts"]
         /\ (resequence_label_sq(done) /\ last'.code = 200)
               => /\ SqDense(contracts'["label_contracts"])
                  /\ contracts'["hardware_contracts"] = contracts["hardware_contracts"]]_vars

\* three rows, the first one deleted and re-created late with sq 2 or text:
\* the resequencing gave h2, h3 the numbers 1, 2
C14_Witness ==
    /\ last.op = "resequence_sq" /\ last.code = 200 /\ last.updated = 2
    /\ DOMAIN contracts["hardware_contracts"] = {"h2", "h3"}
    /\ contracts["hardware_contracts"]["h2"].sq = 1
    /\ contracts["hardware_contracts"]["h3"].sq = 2
    /\ contracts["hardware_contracts"]["h2"].created_at < contracts["hardware_contracts"]["h3"].created_at

\* C15: the sq an automatic assignment gives to a new contract is strictly
\* greater than the sq of every contract its table held when it was created.
C15_AutoSqAboveAllPresent ==
    [][\A id \in HardwareIds, c \in SqRequests :
         (c.sq = NONE /\ create_hardware_contract(id, c, "none") /\ last'.code = 200)
           => \A i \in DOMAIN contracts["hardware_contracts"] :
                 IsDigit(contracts["hardware_contracts"][i].sq)
                   => contracts'["hardware_contracts"][id].sq > contracts["hardware_contracts"][i].sq]_vars

-----------------------------------------------------------------------------
(* Properties of the date helpers *)

ValidDate(date) == date # Absent /\ fromisoformat(date) >= 0

ClaimCadenceOf(contract_type) == (IF contract_type = "hardware" THEN 90 ELSE 30) * TicksPerDay

\* C16: for a valid anchor date calculate_next_pms_from_contract_date returns
\* anchor + 90 days for hardware, + 30 days for label and + 30 days for any
\* other contract type.
C16_AnchorPlusCadence ==
    [][(last'.op = "calculate_next_pms_from_contract_date" /\ ValidDate(last.contract_date))
         => last'.result = fromisoformat(last.contract_date)
                             + (IF last.contract_type = "hardware" THEN 90 * TicksPerDay
                                ELSE IF last.contract_type = "label" THEN 30 * TicksPerDay
                                ELSE 30 * TicksPerDay)]_vars

\* an unknown contract type: 2024-01-01 midday gives 2024-01-31 midday
C16_Witness ==
    /\ last.op = "calculate_next_pms_from_contract_date"
    /\ last.contract_type = "other"
    /\ last.contract_date = <<2024, 1, 1, 1>>
    /\ isoformat(last.result) = <<2024, 1, 31, 1>>

C18_AdvancesFromCurrentSchedule ==
    [][last'.op = "calculate_next_pms_schedule"
         => /\ ValidDate(last.current_schedule)
                  => last'.result = fromisoformat(last.current_schedule)
                                        + ClaimCadenceOf(last.contract_type)
            /\ (last.current_schedule = Absent /\ ValidDate(last.contract_date))
                  => last'.result = fromisoformat(last.contract_date)
                                        + ClaimCadenceOf(last.contract_type)]_vars

ResultDates == [k \in 1..Len(last'.pms_schedules) |-> fromisoformat(last'.pms_schedules[k])]

GenerateStep ==
    /\ last'.op = "generate_full_pms_schedule"
    /\ ValidDate(last.contract_date) /\ ValidDate(last.end_date)

\* C19: for valid dates generate_full_pms_schedule returns anchor + k * cadence
\* for k = 1..n: strictly increasing, without the anchor, every entry <= end
\* (one equal to end included), and anchor + (n + 1) * cadence > end.
C19_CadencePointsUpToEnd ==
    [][GenerateStep
         => LET anchor == fromisoformat(last.contract_date)
                end == fromisoformat(last.end_date)
                cadence == ClaimCadenceOf(last.contract_type)
                n == Len(ResultDates)
            IN /\ \A k \in 1..n : ResultDates[k] = anchor + k * cadence
               /\ \A k \in 1..n : ResultDates[k] <= end /\ ResultDates[k] # anchor
               /\ \A k \in 1..(n - 1) : ResultDates[k] < ResultDates[k + 1]
               /\ anchor + (n + 1) * cadence > end]_vars

\* label, 2024-01-01 to 2024-01-31: the one entry equals the end date
C19_Witness ==
    /\ last.op = "generate_full_pms_schedule" /\ last.contract_type = "label"
    /\ last.contract_date = <<2024, 1, 1, 0>> /\ last.end_date = <<2024, 1, 31, 0>>
    /\ last.pms_schedules = <<(<<2024, 1, 31, 0>>)>>

\* C20 as claimed: for valid dates the number of entries is
\* floor((end - anchor) / cadence).
C20_LengthIsFloor ==
    [][GenerateStep
         => Len(last'.pms_schedules)
              = (fromisoformat(last.end_date) - fromisoformat(last.contract_date))
                   \div ClaimCadenceOf(last.contract_type)]_vars

\* C20 amended: the number of entries is floor((end - anchor) / cadence) when
\* end >= anchor and 0 when end < anchor; 2024-01-01 to 2024-12-31, hardware,
\* gives 2024-03-31, 2024-06-29, 2024-09-27, 2024-12-26.
C20_LengthIsFloorFromAnchor ==
    [][GenerateStep
         => LET anchor == fromisoformat(last.contract_date)
                end == fromisoformat(last.end_date)
            IN /\ end >= anchor
                    => Len(last'.pms_schedules) = (end - anchor) \div ClaimCadenceOf(last.contract_type)
               /\ end < anchor => last'.pms_schedules = <<>>
               /\ (last.contract_date = <<2024, 1, 1, 0>> /\ last.end_date = <<2024, 12, 31, 0>>
                   /\ last.contract_type = "hardware")
                    => last'.pms_schedules = <<(<<2024, 3, 31, 0>>), (<<2024, 6, 29, 0>>),
                                               (<<2024, 9, 27, 0>>), (<<2024, 12, 26, 0>>)>>]_vars

C20_Witness ==
    /\ last.op = "generate_full_pms_schedule" /\ last.contract_type = "hardware"
    /\ last.contract_date = <<2024, 1, 1, 0>> /\ last.end_date = <<2024, 12, 31, 0>>
    /\ Len(last.pms_schedules) = 4
    /\ last.pms_schedules[4] = <<2024, 12, 26, 0>>

\* C21: generate_full_pms_schedule returns the empty sequence, without raising,
\* when the end date is before the contract date or one of the two dates is
\* absent or unparseable; the pms-schedule endpoints then answer with
\* total_schedules = 0.
C21_EmptyScheduleOnBadDates ==
    [][(/\ last.op = "request"
        /\ last'.op \in {"generate_full_pms_schedule", "get_pms_schedule"}
        /\ \/ ~ValidDate(last.contract_date)
           \/ ~ValidDate(last.end_date)
           \/ fromisoformat(last.end_date) < fromisoformat(last.contract_date))
         => /\ last'.pms_schedules = <<>>
            /\ last'.op = "get_pms_schedule" => last'.code = 200 /\ last'.total_schedules = 0]_vars

\* the endpoint answered for a contract whose end date is before its contract date
C21_Witness ==
    /\ last.op = "get_pms_schedule" /\ last.code = 200 /\ last.total_schedules = 0
    /\ last.contract_date = <<2024, 1, 1, 1>> /\ last.end_date = <<2023, 12, 31, 1>>

\* C22: complete-pms never fails because of the completion_date it is given:
\* with no store fault the call on an existing contract answers 200, and when
\* the date is absent or unparseable the event's service_date is the current
\* time and next_pms_schedule is the current time plus the cadence.
C22_CompletionDateNeverFails ==
    [][\A t \in Tables, id \in RequestIds, d \in CompletionDates :
         (complete_pms(t, id, d, "none") /\ Exists(t, id))
           => /\ last'.code = 200
              /\ Len(service_history') = Len(service_history) + 1
              /\ (d \in {NONE, BAD}
                    => /\ NewEvent.service_date = now
                       /\ contracts'[t][id].next_pms_schedule = now + ClaimCadence(t))]_vars

\* the part of C22 about absent and unparseable dates only
C22_FallbackToNow ==
    [][\A t \in Tables, id \in RequestIds, d \in {NONE, BAD} :
         (complete_pms(t, id, d, "none") /\ Exists(t, id))
           => /\ last'.code = 200
              /\ NewEvent.service_date = now
              /\ contracts'[t][id].next_pms_schedule = now + ClaimCadence(t)]_vars

\* C23: within one run of a lifecycle scan the contracts are handled
\* independently: whatever happens to the other rows, a run of
\* check_upcoming_maintenance notifies every recipient of every non-expired
\* row that is due within 7 days and whose own inserts succeed.
C23_ContractsIndependent ==
    [][\A ok \in DueSoonOutcomes :
         (last'.op = "check_upcoming_maintenance" /\ check_upcoming_maintenance(FALSE, ok))
           => \A id \in ClaimMatched :
                ok[id] = Len(Recipients)
                  => \A k \in 1..Len(Recipients) :
                        \E j \in 1..Len(Sent) : Sent[j] = NotificationData(Recipients[k], id)]_vars

\* the part of C23 about the expiry sweep only: a row with an unparseable end
\* date or a failing update does not keep the other rows past their end date
\* from being expired in the same run
C23_ExpiryIndependent ==
    [][\A failing \in SUBSET RequestIds :
         (last'.op = "check_expired_contracts" /\ check_expired_contracts(FALSE, failing))
           => \A id \in StoredIds \ failing :
                (RowOfId(id).status # "expired" /\ RowOfId(id).end_of_contract >= 0
                 /\ DateOf(RowOfId(id).end_of_contract) < DateOf(now))
                  => \E t \in Tables : id \in DOMAIN contracts'[t] /\ contracts'[t][id].status = "expired"]_vars

\* C24: a notification fan-out in which one insert fails is not aborted: the
\* inserts for the remaining recipients of that contract are still made, so a
\* matched contract gets a notification for all its recipients but the failed
\* one.
C24_FanOutContinues ==
    [][\A ok \in DueSoonOutcomes :
         (last'.op = "check_upcoming_maintenance" /\ check_upcoming_maintenance(FALSE, ok)
          /\ ScanCompletes)
           => \A id \in ClaimMatched :
                Cardinality({j \in 1..Len(Sent) : Sent[j].contract_id = id})
                    >= Len(Recipients) - 1]_vars

\* the part of C24 about resequencing: when the update of one row fails the
\* other rows are still renumbered and the answer counts the rows updated
C24_ResequenceContinues ==
    [][\A t \in Tables, done \in 0..MaxRows :
         (last'.op = "resequence_sq" /\ resequence_sq(t, done)
          /\ done < Cardinality(DOMAIN contracts[t]))
           => LET rows == OrderByCreatedAt(t, DOMAIN contracts[t])
              IN /\ \A k \in 1..Len(rows) : k # done + 1 => contracts'[t][rows[k]].sq = k
                 /\ last'.code = 200
                 /\ last'.updated = Len(rows) - 1]_vars

\* C25: in complete-pms the service_history insert comes before the update of
\* next_pms_schedule: a call changes next_pms_schedule only if it appended its
\* event, and when the insert fails or returns no row the call answers an
\* error and leaves next_pms_schedule and service_history as they were.
C25_NoAdvanceWithoutEvent ==
    [][\A t \in Tables, id \in RequestIds, d \in CompletionDates, f \in CompletionFaults :
         (last'.op = "complete_pms" /\ last'.table = t /\ last'.contract_id = id
          /\ complete_pms(t, id, d, f) /\ Exists(t, id))
           => /\ (contracts' # contracts
                    => /\ Len(service_history') = Len(service_history) + 1
                       /\ NewEvent.contract_id = id
                       /\ NewEvent.service_date = (IF d >= 0 THEN d ELSE now))
              /\ (f \in {"insert_error", "insert_no_data"}
                    => /\ last'.code = 500
                       /\ service_history' = service_history
                       /\ contracts'[t][id].next_pms_schedule
                            = contracts[t][id].next_pms_schedule)]_vars

\* a call on an existing contract failed at the service_history insert
C25_Witness ==
    /\ last.op = "complete_pms" /\ last.code = 500 /\ last.detail = "Database error"
    /\ Exists(last.table, last.contract_id)
    /\ service_history = <<>>
    /\ contracts[last.table][last.contract_id].next_pms_schedule = DueAtWindowEnd

\* C26: complete-pms neither reads nor writes the contract's status: no call
\* changes the status of any row, and for every status, expired included, a
\* call without a store fault whose completion date leaves room for the
\* cadence answers 200, appends its event and writes next_pms_schedule.
C26_StatusUntouched ==
    [][\A t \in Tables, id \in RequestIds, d \in CompletionDates, f \in CompletionFaults :
         (last'.op = "complete_pms" /\ last'.table = t /\ last'.contract_id = id
          /\ complete_pms(t, id, d, f))
           => /\ \A u \in Tables : \A i \in DOMAIN contracts[u] :
                    contracts'[u][i].status = contracts[u][i].status
              /\ (Exists(t, id) /\ f = "none" /\ d # LastDayCompletion
                    => /\ last'.code = 200
                       /\ Len(service_history') = Len(service_history) + 1
                       /\ NewEvent.contract_id = id
                       /\ contracts'[t][id].next_pms_schedule
                            = (IF d >= 0 THEN d ELSE now) + ClaimCadence(t))]_vars

\* a completion was accepted for an expired contract, which is still expired
C26_Witness ==
    /\ last.op = "complete_pms" /\ last.code = 200
    /\ Exists(last.table, last.contract_id)
    /\ contracts[last.table][last.contract_id].status = "expired"
    /\ contracts[last.table][last.contract_id].next_pms_schedule = last.next_pms_schedule
    /\ service_history[last.service_history_id].contract_id = last.contract_id

RemindersFor(notifs, user_id, contract_id) ==
    Cardinality({j \in 1..Len(notifs) : notifs[j] = NotificationData(user_id, contract_id)})

C28_ExpiresOnlyPastEndAtWrite ==
    [][\A t \in Tables, id \in RequestIds :
         (/\ expiry_step(FALSE)
          /\ id \in DOMAIN contracts[t] /\ id \in DOMAIN contracts'[t]
          /\ contracts[t][id].status # "expired" /\ contracts'[t][id].status = "expired")
           => /\ contracts[t][id].end_of_contract >= 0
              /\ DateOf(contracts[t][id].end_of_contract) < DateOf(now)]_vars

LaterOf(a, b) == IF a >= b THEN a ELSE b

\* C29: when two complete-pms calls on the same contract interleave, both
\* events are appended and, once both have answered, next_pms_schedule is the
\* later of the two completion dates plus the cadence. The calls taken are
\* those in which the one that inserted first answered last.
C29_LatestCompletionWins ==
    (/\ calls = <<>>
     /\ last.op = "complete_pms" /\ last.code = 200 /\ last.service_history_id = 1
     /\ Len(service_history) = 2
     /\ service_history[1].contract_id = service_history[2].contract_id
     /\ service_history[2].service_date < LastDayCompletion)
      => contracts[last.table][last.contract_id].next_pms_schedule
            = LaterOf(service_history[1].service_date, service_history[2].service_date)
              + ClaimCadence(last.table)

\* C30: sq values are unique within a class: after any creations with
\* automatic sq assignment, two create requests whose read of the last sq and
\* insert interleave included, no two rows of one table hold the same sq.
C30_SqUniqueWithinClass ==
    \A t \in Tables : \A i, j \in DOMAIN contracts[t] :
        i # j => contracts[t][i].sq # contracts[t][j].sq

====
